---- MODULE Spec2Model ----
(***************************************************************************)
(* The autoreload cog: AutoReload (the registry of watched cogs and the    *)
(* persisted configuration), CogWatchdog (one observer thread per watched  *)
(* cog) and EventHandler (the debounced reload of one cog), from           *)
(* src/autoreload/autoreload.py.                                           *)
(*                                                                         *)
(* Threads and tasks are interleaved at the granularity of the code:       *)
(*   - a command coroutine runs atomically from one await to the next; a   *)
(*     step performs the awaited operation and the synchronous code that   *)
(*     follows it, up to the next await;                                   *)
(*   - an observer thread delivers one event per step (dispatch and        *)
(*     on_modified);                                                       *)
(*   - a threading.Timer thread takes two steps: its wait ends uncancelled *)
(*     (TimerExpire), then it calls its function (TimerFire);              *)
(*   - the event loop starts one posted EventHandler.reload per step.      *)
(* Time is discrete; Tick lets one unit pass.                              *)
(***************************************************************************)
EXTENDS Integers, Sequences, FiniteSets, TLC

\* ---------------------------------------------------------------- bounds
\* CogWatchdog objects created in one run.
MaxSessions == 2
\* threading.Timer objects created in one run (qualifying events handled).
MaxTimers == 2

\* ------------------------------------------------------------ value sets
\* What a coroutine ends with: Python's None (a false value) or True, or
\* "raised" when an exception leaves it.
None == "None"
True == "True"
Raised == "raised"
\* Identifiers find_cog resolves to a package (a directory), one it resolves
\* to a module that is a single file, and one it does not resolve.
Packages == {"foo", "bar"}
PlainModules == {"mod"}
Resolvable == Packages \cup PlainModules
Unknown == {"nope"}
Names == Resolvable \cup Unknown
\* Persisted values of "wait" (seconds) the wait command can have stored.
WaitValues == {0, 1, 2}
\* Persisted values of "logto": no user, or a user id.
LogTargets == {None, "owner"}

\* Glob patterns and paths are sequences of characters.
StarPy == <<"*", ".", "p", "y">>
Star == <<"*">>
QTxt == <<"*", ".", "t", "?", "t">>
\* Persisted values of "patterns" the patterns commands can have stored.
PatternLists == {<< >>, <<Star>>, <<StarPy>>, <<StarPy, QTxt>>}

PyPath == <<"f", "/", "b", ".", "p", "y">>
TxtPath == <<"f", "/", "b", ".", "t", "x", "t">>
Paths == {PyPath, TxtPath}
NoPath == << >>

\* watchdog's event types.
EventTypes == {"modified", "created", "deleted", "moved"}
\* A filesystem event: only a moved event has a dest_path.
Event(type, isdir, src, dest) == [type |-> type, isdir |-> isdir, src |-> src, dest |-> dest]
\* The events an observer delivers: each type on a file, a modified
\* directory, and a move whose destination alone can match.
Events ==
    {Event(ty, FALSE, p, NoPath) : ty \in EventTypes \ {"moved"}, p \in Paths}
        \cup {Event("modified", TRUE, PyPath, NoPath), Event("moved", FALSE, TxtPath, PyPath)}

\* Command tasks that can be in flight together.
Tasks == {1, 2}

VARIABLES
    config,     \* the persisted store: [wait, patterns, logto, cogs]
    watch,      \* self.watch: identifier -> index into sessions (0: no key)
    sessions,   \* every CogWatchdog created, with its EventHandler
    timers,     \* every threading.Timer created
    loopQueue,  \* EventHandler.reload coroutines posted to the event loop
    reloads,    \* EventHandler.reload bodies started (a log)
    tasks,      \* the command coroutines
    unloaded    \* __unload has run

vars == <<config, watch, sessions, timers, loopQueue, reloads, tasks, unloaded>>

\* ------------------------------------------------------------- helpers
InSeq(x, s) == \E i \in 1..Len(s) : s[i] = x

RECURSIVE RemoveFirst(_, _)
\* list.remove(x) for a list that holds x.
RemoveFirst(s, x) ==
    IF s = << >> THEN << >>
    ELSE IF Head(s) = x THEN Tail(s)
    ELSE <<Head(s)>> \o RemoveFirst(Tail(s), x)

Min(a, b) == IF a < b THEN a ELSE b
Max(a, b) == IF a > b THEN a ELSE b

\* ------------------------------------------------------ pattern matching
RECURSIVE fnmatch(_, _)
\* fnmatchcase(name, pat) for patterns of literals, ? and *.
fnmatch(name, pat) ==
    IF pat = << >> THEN name = << >>
    ELSE IF Head(pat) = "*"
        THEN fnmatch(name, Tail(pat)) \/ (name # << >> /\ fnmatch(Tail(name), pat))
    ELSE IF name = << >> THEN FALSE
    ELSE (Head(pat) = "?" \/ Head(pat) = Head(name)) /\ fnmatch(Tail(name), Tail(pat))

\* match_any_paths(paths, included_patterns = patterns): a given list is used
\* as it is, so an empty list includes nothing.
match_any_paths(paths, patterns) ==
    \E p \in paths : \E i \in 1..Len(patterns) : fnmatch(p, patterns[i])

EventPaths(ev) == {ev.src} \cup (IF ev.dest = NoPath THEN {} ELSE {ev.dest})

\* dispatch without the pattern filter.
DispatchesUnfiltered(h, ev) == ~(h.ignore_directories /\ ev.isdir)

\* PatternMatchingEventHandler.dispatch goes on to the on_<type> method:
\* directory events are dropped, and events none of whose paths matches.
Dispatches(h, ev) ==
    /\ ~(h.ignore_directories /\ ev.isdir)
    /\ match_any_paths(EventPaths(ev), h.patterns)

\* EventHandler with an on_created that debounces too.
OverriddenWithCreated == {"modified", "created"}

\* The on_<type> methods EventHandler overrides.
Overridden == {"modified"}

\* ---------------------------------------------------------------- state
\* A free task slot; a running coroutine holds its position and its locals.
IdleTask ==
    [op |-> "none", pc |-> "idle", name |-> None, cur |-> << >>, outer |-> << >>,
     idx |-> 0, wait |-> 0, logto |-> None, exc |-> FALSE, ret |-> None,
     arg |-> << >>, changed |-> FALSE]

\* AutoReload.__init__ with the store as it is before load() has run: the
\* values under "wait", "patterns" and "logto", and no identifier persisted.
Fresh(stored) ==
    /\ config \in stored
    /\ watch = [n \in Names |-> 0]
    /\ sessions = << >>
    /\ timers = {}
    /\ loopQueue = << >>
    /\ reloads = {}
    /\ tasks = [t \in Tasks |-> IdleTask]
    /\ unloaded = FALSE

\* register_global's defaults: a store nothing was written to.
DefaultWait == 5
Defaults == [wait |-> DefaultWait, patterns |-> <<StarPy>>, logto |-> None, cogs |-> << >>]

\* A store the wait, patterns and log commands of earlier runs wrote to.
Stored == [wait : WaitValues, patterns : PatternLists, logto : LogTargets, cogs : {<< >>}]

Init == Fresh({Defaults})

InitStored == Fresh(Stored)

\* ------------------------------------------------- EventHandler, timers
\* EventHandler.__init__ inside CogWatchdog.__init__: the handler's fields,
\* the observer not yet started. bursts holds, for each burst of qualifying
\* events this handler has seen, the time since the burst's last event
\* (counted up to wait); persisted is the pattern list the store held.
CogWatchdog(cog_name, wait, logto, patterns, persisted) ==
    [cog |-> cog_name, wait |-> wait, logto |-> logto, patterns |-> patterns,
     ignore_directories |-> TRUE, alive |-> FALSE, debounce |-> 0,
     bursts |-> << >>, armedAtStop |-> {}, persisted |-> persisted]

SessionIds == 1..Len(sessions)

\* A cancel that stops no timer.
TimerCancelNothing(ts, id) == ts

\* Timer.cancel(): sets the timer's finished flag; the timer thread skips its
\* function only if its wait has not ended yet.
TimerCancel(ts, id) ==
    {IF t.id = id /\ t.state = "armed"
        THEN [t EXCEPT !.state = "cancelled", !.remaining = 0] ELSE t : t \in ts}

\* on_modified without the cancel of the previous timer.
DebounceCancelSkipped(ts, h) == ts

\* A cancel that reaches the armed timers of every handler.
DebounceCancelAll(ts, h) ==
    {IF t.state = "armed" THEN [t EXCEPT !.state = "cancelled", !.remaining = 0] ELSE t : t \in ts}

\* self._debounce.cancel(), AttributeError passed when there is none yet.
DebounceCancel(ts, h) == IF h.debounce = 0 THEN ts ELSE TimerCancel(ts, h.debounce)

\* An event continues the current burst when it arrives less than wait after
\* the previous qualifying event of this handler.
ContinuesBurst(h) ==
    h.bursts # << >> /\ h.bursts[Len(h.bursts)] < h.wait

\* EventHandler.on_modified on the observer thread of session s: the timers
\* and the sessions after it.
on_modified(ts, ss, s) ==
    LET h == ss[s]
        id == Cardinality(ts) + 1
        b == IF ContinuesBurst(h) THEN Len(h.bursts) ELSE Len(h.bursts) + 1
    IN [timers |-> DebounceCancel(ts, h) \cup
                     {[id |-> id, sid |-> s, burst |-> b, state |-> "armed",
                       remaining |-> h.wait]},
        sessions |-> [ss EXCEPT
                         ![s].debounce = id,
                         ![s].bursts = IF ContinuesBurst(h)
                                         THEN [@ EXCEPT ![Len(@)] = 0]
                                         ELSE Append(@, 0)]]

\* PatternMatchingEventHandler.dispatch of one event to the handler of
\* session s, and the on_<type> method it ends in.
dispatch(ts, ss, s, ev) ==
    IF Dispatches(ss[s], ev) /\ ev.type \in Overridden
        THEN on_modified(ts, ss, s)
        ELSE [timers |-> ts, sessions |-> ss]

\* The observer thread of a started session hands one event to its handler.
Dispatch(s, ev) ==
    /\ sessions[s].alive
    /\ LET after == dispatch(timers, sessions, s, ev)
       IN /\ Cardinality(after.timers) <= MaxTimers
          /\ timers' = after.timers
          /\ sessions' = after.sessions
    /\ UNCHANGED <<config, watch, loopQueue, reloads, tasks, unloaded>>

\* One unit of time passes for every timer and every handler.
Tick ==
    /\ timers' = {[t EXCEPT !.remaining = Max(0, @ - 1)] : t \in timers}
    /\ sessions' = [i \in SessionIds |->
           [sessions[i] EXCEPT !.bursts =
               [j \in 1..Len(@) |-> Min(@[j] + 1, sessions[i].wait)]]]
    /\ <<timers', sessions'>> # <<timers, sessions>>
    /\ UNCHANGED <<config, watch, loopQueue, reloads, tasks, unloaded>>

\* Timer.run: finished.wait(interval) timed out and the flag is not set.
TimerExpire(t) ==
    /\ t.state = "armed" /\ t.remaining = 0
    /\ timers' = (timers \ {t}) \cup {[t EXCEPT !.state = "expired"]}
    /\ UNCHANGED <<config, watch, sessions, loopQueue, reloads, tasks, unloaded>>

\* The start of EventHandler.reload's body for a posted or called coroutine:
\* it runs up to await core._reload([self.cog_name]). calls are the messages
\* self.logto.send was called with.
ReloadStart(item, thread) ==
    [sid |-> item.sid, cog |-> sessions[item.sid].cog, timer |-> item.timer,
     burst |-> item.burst, thread |-> thread,
     early |-> sessions[item.sid].bursts[item.burst] < sessions[item.sid].wait,
     stopped |-> ~sessions[item.sid].alive,
     pc |-> "reloading", ok |-> FALSE, pages |-> 0, calls |-> << >>]

ReloadItem(t) == [sid |-> t.sid, timer |-> t.id, burst |-> t.burst]

\* reload_debounced running the reload where it is called, on the timer thread.
reload_inline(t) ==
    [queue |-> loopQueue, started |-> reloads \cup {ReloadStart(ReloadItem(t), "timer")}]

\* reload_debounced posting nothing.
reload_dropped(t) == [queue |-> loopQueue, started |-> reloads]

\* reload_debounced: loop.call_soon_threadsafe(asyncio.ensure_future, self.reload()).
reload_debounced(t) ==
    [queue |-> Append(loopQueue, ReloadItem(t)), started |-> reloads]

\* Timer.run calls its function on the timer thread.
TimerFire(t) ==
    /\ t.state = "expired"
    /\ timers' = (timers \ {t}) \cup {[t EXCEPT !.state = "done"]}
    /\ loopQueue' = reload_debounced(t).queue
    /\ reloads' = reload_debounced(t).started
    /\ UNCHANGED <<config, watch, sessions, tasks, unloaded>>

\* The event loop runs the oldest posted callback: the reload task starts.
RunReload ==
    /\ loopQueue # << >>
    /\ reloads' = reloads \cup {ReloadStart(Head(loopQueue), "loop")}
    /\ loopQueue' = Tail(loopQueue)
    /\ UNCHANGED <<config, watch, sessions, timers, tasks, unloaded>>

\* --------------------------------------------- EventHandler.reload's body
\* A status message naming success whatever the result.
status_always_reloaded(ok) == "Reloaded"

\* f"Reloaded `...`" if result[0], else f"`...` failed to reload".
status_message(ok) == IF ok THEN "Reloaded" ELSE "failed to reload"

\* What core._reload leaves: the cog loaded or not, and for a failure the
\* pages of bot._last_exception when it is a new one (0: it is not).
MaxPages == 2
ReloadResults ==
    {[ok |-> TRUE, pages |-> 0]} \cup {[ok |-> FALSE, pages |-> p] : p \in 0..MaxPages}

\* core._reload has returned: with a sink the status message is sent and
\* awaited; without one the body ends.
reload_result(rec, res) ==
    IF sessions[rec.sid].logto = None
    THEN [rec EXCEPT !.pc = "done", !.ok = res.ok]
    ELSE [rec EXCEPT !.pc = "sending", !.ok = res.ok, !.pages = res.pages,
                     !.calls = <<status_message(res.ok)>>]

\* An awaited self.logto.send(...) has returned, or has raised: after the
\* failed message the pages are sent one by one; an exception ends the task.
send_returns(rec, raised) ==
    IF raised THEN [rec EXCEPT !.pc = "raised"]
    ELSE IF rec.pages = 0 THEN [rec EXCEPT !.pc = "done"]
    ELSE [rec EXCEPT !.pages = @ - 1, !.calls = Append(@, "page")]

ReloadResult(rec, res) ==
    /\ rec.pc = "reloading"
    /\ reloads' = (reloads \ {rec}) \cup {reload_result(rec, res)}
    /\ UNCHANGED <<config, watch, sessions, timers, loopQueue, tasks, unloaded>>

SendReturns(rec, raised) ==
    /\ rec.pc = "sending"
    /\ reloads' = (reloads \ {rec}) \cup {send_returns(rec, raised)}
    /\ UNCHANGED <<config, watch, sessions, timers, loopQueue, tasks, unloaded>>

\* ------------------------------------------------------------ CogWatchdog
\* A stop that leaves the observer running.
stop_nothing(ss, sid) == ss

\* CogWatchdog.stop: observer.stop() and observer.join(); the handler's timer
\* is left as it is. armedAtStop notes the timers armed at that moment.
stop(ss, sid) ==
    [ss EXCEPT ![sid].alive = FALSE,
               ![sid].armedAtStop =
                   {t.id : t \in {u \in timers : u.sid = sid /\ u.state = "armed"}}]

RECURSIVE stop_all(_, _, _)
\* for cog in self.watch: self.watch[cog].stop()
stop_all(ss, w, names) ==
    IF names = {} THEN ss
    ELSE LET n == CHOOSE x \in names : TRUE
         IN stop_all(stop(ss, w[n]), w, names \ {n})

NoWatch == [n \in Names |-> 0]

\* ------------------------------------------------------------ AutoReload
\* A coroutine is stepped on the part of the state it can touch:
\* r = [tk, config, watch, sessions], tk being the coroutine itself.
Here(tk) == [tk |-> tk, config |-> config, watch |-> watch, sessions |-> sessions]

Done(tk, ret) ==
    [IdleTask EXCEPT !.op = tk.op, !.name = tk.name, !.pc = "done", !.ret = ret]

\* Where a coroutine goes on after an _add call returns: the add command
\* ends with _add's value; load takes the next identifier of its list.
AfterAdd(tk, ret) ==
    IF tk.op = "add" THEN Done(tk, ret)
    ELSE IF tk.idx + 1 > Len(tk.outer)
        THEN [tk EXCEPT !.pc = "lexit", !.idx = 0, !.name = None, !.cur = << >>,
                        !.wait = 0, !.logto = None]
        ELSE [tk EXCEPT !.pc = "find", !.idx = tk.idx + 1, !.name = tk.outer[tk.idx + 1],
                        !.cur = << >>, !.wait = 0, !.logto = None]

\* find_cog(cog_name): a module spec (its name), or None.
find_cog(n) == IF n \in Resolvable THEN n ELSE None

\* cog.submodule_search_locations: the package's directory; None (here the
\* empty list) for a module that is no package.
submodule_search_locations(n) == IF n \in Packages THEN <<n>> ELSE << >>

\* An exception leaves _add: the add command ends with it; under load it
\* leaves the for loop and load's async with block is left with it.
Raise(tk) ==
    IF tk.op = "add" THEN Done(tk, Raised)
    ELSE [tk EXCEPT !.pc = "lexit", !.exc = TRUE, !.idx = 0, !.name = None,
                    !.cur = << >>, !.wait = 0, !.logto = None]

\* _add: if cog and cog.name not in self.watch.
add_guard(r) == find_cog(r.tk.name) # None /\ r.watch[r.tk.name] = 0

\* The add command calls _add(n), which awaits find_cog.
add_begin(r, n) ==
    [r EXCEPT !.tk = [IdleTask EXCEPT !.op = "add", !.pc = "find", !.name = n]]

\* _add resumes with find_cog's result: returns None, or opens config.cogs().
add_find(r) ==
    [r EXCEPT !.tk = IF add_guard(r) THEN [r.tk EXCEPT !.pc = "enter"]
                     ELSE AfterAdd(r.tk, None)]

\* if cog.name not in curr_cogs: curr_cogs.append(cog.name)
add_append(cogs, n) == IF InSeq(n, cogs) THEN cogs ELSE Append(cogs, n)

\* async with self.config.cogs() as curr_cogs: the list is read and the name
\* appended to the copy.
add_enter(r) ==
    [r EXCEPT !.tk = [r.tk EXCEPT !.pc = "exit",
                                  !.cur = add_append(r.config.cogs, r.tk.name)]]

\* Leaving the async with block stores the copy; then
\* path = cog.submodule_search_locations[0], a TypeError when there is none.
add_exit(r) ==
    [r EXCEPT !.config = [r.config EXCEPT !.cogs = r.tk.cur],
              !.tk = IF submodule_search_locations(r.tk.name) = << >>
                     THEN Raise(r.tk)
                     ELSE [r.tk EXCEPT !.pc = "wait", !.cur = << >>]]

\* wait = await self.config.wait()
add_wait(r) == [r EXCEPT !.tk = [r.tk EXCEPT !.pc = "logto", !.wait = r.config.wait]]

\* logto = await self.config.logto(); logto = self.bot.get_user(logto)
add_logto(r) == [r EXCEPT !.tk = [r.tk EXCEPT !.pc = "patterns", !.logto = r.config.logto]]

\* _add handing the pattern list on as the store holds it.
add_patterns_raw(patterns) == patterns

\* if not patterns: patterns.append("*")
add_patterns(patterns) == IF patterns = << >> THEN <<Star>> ELSE patterns

\* patterns = await self.config.patterns(); the CogWatchdog is created, put
\* into self.watch and started; _add returns True.
add_create(r) ==
    LET new == CogWatchdog(r.tk.name, r.tk.wait, r.tk.logto,
                           add_patterns(r.config.patterns), r.config.patterns)
    IN [r EXCEPT !.sessions = Append(r.sessions, [new EXCEPT !.alive = TRUE]),
                 !.watch = [r.watch EXCEPT ![r.tk.name] = Len(r.sessions) + 1],
                 !.tk = AfterAdd(r.tk, True)]

\* _del going on whether or not the identifier is a key of self.watch.
del_guard_always(r, n) == TRUE

\* _del: if cog_name in self.watch.
del_guard(r, n) == r.watch[n] # 0

\* The remove command calls _del(n): it returns None, or opens config.cogs().
del_begin(r, n) ==
    [r EXCEPT !.tk = IF del_guard(r, n)
                     THEN [IdleTask EXCEPT !.op = "del", !.pc = "denter", !.name = n]
                     ELSE Done([IdleTask EXCEPT !.op = "del", !.name = n], None)]

\* curr_cogs.remove(cog_name) on the list read: ValueError when it is not in it.
del_enter(r) ==
    [r EXCEPT !.tk = [r.tk EXCEPT !.pc = "dexit",
                                  !.exc = ~InSeq(r.tk.name, r.config.cogs),
                                  !.cur = RemoveFirst(r.config.cogs, r.tk.name)]]

\* Leaving the block stores the copy; then self.watch[cog_name].stop() and
\* del self.watch[cog_name] (KeyError when the key is gone), return True.
del_exit(r) ==
    LET stored == [r EXCEPT !.config = [r.config EXCEPT !.cogs = r.tk.cur]]
    IN IF r.tk.exc \/ r.watch[r.tk.name] = 0
       THEN [stored EXCEPT !.tk = Done(r.tk, Raised)]
       ELSE [stored EXCEPT !.sessions = stop(r.sessions, r.watch[r.tk.name]),
                           !.watch = [r.watch EXCEPT ![r.tk.name] = 0],
                           !.tk = Done(r.tk, True)]

\* AutoReload.unload: every session in self.watch is stopped, the map cleared.
unload(r) ==
    [r EXCEPT !.sessions = stop_all(r.sessions, r.watch, {n \in Names : r.watch[n] # 0}),
              !.watch = NoWatch]

\* AutoReload.reload: unload(), then load() opens config.cogs().
reload_begin(r) ==
    [unload(r) EXCEPT !.tk = [IdleTask EXCEPT !.op = "reload", !.pc = "lenter"]]

\* load: the list is read; _add is called for its first identifier.
load_enter(r) ==
    [r EXCEPT !.tk = AfterAdd([r.tk EXCEPT !.outer = r.config.cogs, !.idx = 0], None)]

\* load leaves its async with block: the copy it read is stored, and an
\* exception that left _add leaves load.
load_exit(r) ==
    [r EXCEPT !.config = [r.config EXCEPT !.cogs = r.tk.outer],
              !.tk = Done(r.tk, IF r.tk.exc THEN Raised ELSE None)]

\* ----------------------------------------------------- setting commands
\* The wait command: with no argument it reads the stored value, with a
\* negative one it changes nothing; else it awaits self.config.wait.set(wait).
wait_begin(r, given, w) ==
    [r EXCEPT !.tk = IF given /\ w >= 0
                     THEN [IdleTask EXCEPT !.op = "wait", !.pc = "wset", !.wait = w]
                     ELSE Done([IdleTask EXCEPT !.op = "wait"], None)]

\* The value is stored; await self.reload() runs unload() and opens load's
\* config.cogs().
wait_set(r) == reload_begin([r EXCEPT !.config = [r.config EXCEPT !.wait = r.tk.wait]])

\* The log command: a query, or logto.set(user.id) / logto.set(None).
log_begin(r, mode) ==
    [r EXCEPT !.tk = IF mode = "query" THEN Done([IdleTask EXCEPT !.op = "log"], None)
                     ELSE [IdleTask EXCEPT !.op = "log", !.pc = "lset",
                                           !.logto = IF mode = "on" THEN "owner" ELSE None]]

\* The value is stored; the command awaits ctx.send(...).
log_set(r) ==
    [r EXCEPT !.config = [r.config EXCEPT !.logto = r.tk.logto],
              !.tk = [r.tk EXCEPT !.pc = "send"]]

\* patterns add / patterns rm with one pattern: config.patterns() is opened.
patterns_begin(r, op, p) ==
    [r EXCEPT !.tk = [IdleTask EXCEPT !.op = op, !.pc = "penter", !.arg = p]]

\* patterns_add: if pattern not in curr_patterns: append it.
\* patterns_remove: if pattern in curr_patterns: remove it.
patterns_enter(r) ==
    LET had == InSeq(r.tk.arg, r.config.patterns)
    IN [r EXCEPT !.tk =
           IF r.tk.op = "patterns_add"
           THEN [r.tk EXCEPT !.pc = "pexit", !.changed = ~had,
                             !.cur = IF had THEN r.config.patterns
                                     ELSE Append(r.config.patterns, r.tk.arg)]
           ELSE [r.tk EXCEPT !.pc = "pexit", !.changed = had,
                             !.cur = RemoveFirst(r.config.patterns, r.tk.arg)]]

\* Leaving the block stores the copy; if added / if removed: the command
\* awaits ctx.send(...) and goes on to reload(); else it ends.
patterns_exit(r) ==
    [r EXCEPT !.config = [r.config EXCEPT !.patterns = r.tk.cur],
              !.tk = IF r.tk.changed THEN [r.tk EXCEPT !.pc = "send", !.cur = << >>]
                     ELSE Done(r.tk, None)]

\* After ctx.send(...): await self.reload().
cmd_send(r) == reload_begin(r)

\* One step of a coroutine: from the await it is at to its next await.
TaskStep(r) ==
    CASE r.tk.pc = "find" -> add_find(r)
      [] r.tk.pc = "enter" -> add_enter(r)
      [] r.tk.pc = "exit" -> add_exit(r)
      [] r.tk.pc = "wait" -> add_wait(r)
      [] r.tk.pc = "logto" -> add_logto(r)
      [] r.tk.pc = "patterns" -> add_create(r)
      [] r.tk.pc = "denter" -> del_enter(r)
      [] r.tk.pc = "dexit" -> del_exit(r)
      [] r.tk.pc = "lenter" -> load_enter(r)
      [] r.tk.pc = "lexit" -> load_exit(r)
      [] r.tk.pc = "wset" -> wait_set(r)
      [] r.tk.pc = "lset" -> log_set(r)
      [] r.tk.pc = "penter" -> patterns_enter(r)
      [] r.tk.pc = "pexit" -> patterns_exit(r)
      [] r.tk.pc = "send" -> cmd_send(r)

\* A step that creates a CogWatchdog needs one left to create.
CanStep(r) == r.tk.pc = "patterns" => Len(r.sessions) < MaxSessions

RECURSIVE RunToEnd(_)
\* A coroutine run with no other task in between, as far as it gets.
RunToEnd(r) ==
    IF r.tk.pc = "done" \/ ~CanStep(r) THEN r
    ELSE CHOOSE end \in {RunToEnd(next) : next \in {TaskStep(r)}} : TRUE

\* ----------------------------------------------- commands, interleaved
Active(t) == tasks[t].pc # "idle"

\* A command starts in the first free slot.
FreeSlot(t) ==
    /\ ~unloaded
    /\ ~Active(t)
    /\ \A u \in Tasks : u < t => Active(u)

\* The state after a coroutine's step; a coroutine that ended frees its slot.
Store(t, r) ==
    /\ config' = r.config
    /\ watch' = r.watch
    /\ sessions' = r.sessions
    /\ tasks' = [tasks EXCEPT ![t] = IF r.tk.pc = "done" THEN IdleTask ELSE r.tk]
    /\ UNCHANGED <<timers, loopQueue, reloads, unloaded>>

StartAdd(t, n) ==
    /\ FreeSlot(t)
    /\ Store(t, add_begin(Here(IdleTask), n))

StartDel(t, n) ==
    /\ FreeSlot(t)
    /\ Store(t, del_begin(Here(IdleTask), n))

StartReload(t) ==
    /\ FreeSlot(t)
    /\ Store(t, reload_begin(Here(IdleTask)))

\* The coroutine in slot t takes its next step.
Resume(t) == CanStep(Here(tasks[t])) /\ Store(t, TaskStep(Here(tasks[t])))

AddFind(t) ==
    /\ tasks[t].pc = "find"
    /\ Resume(t)

AddEnter(t) ==
    /\ tasks[t].pc = "enter"
    /\ Resume(t)

AddExit(t) ==
    /\ tasks[t].pc = "exit"
    /\ Resume(t)

AddWait(t) ==
    /\ tasks[t].pc = "wait"
    /\ Resume(t)

AddLogto(t) ==
    /\ tasks[t].pc = "logto"
    /\ Resume(t)

AddCreate(t) ==
    /\ tasks[t].pc = "patterns"
    /\ Resume(t)

DelEnter(t) ==
    /\ tasks[t].pc = "denter"
    /\ Resume(t)

DelExit(t) ==
    /\ tasks[t].pc = "dexit"
    /\ Resume(t)

LoadEnter(t) ==
    /\ tasks[t].pc = "lenter"
    /\ Resume(t)

LoadExit(t) ==
    /\ tasks[t].pc = "lexit"
    /\ Resume(t)

\* __unload, when the cog is removed from the bot: unload(). No command
\* starts after it; the coroutines in flight go on.
Unload ==
    /\ ~unloaded
    /\ sessions' = unload(Here(IdleTask)).sessions
    /\ watch' = NoWatch
    /\ unloaded' = TRUE
    /\ UNCHANGED <<config, timers, loopQueue, reloads, tasks>>

\* ------------------------------------------- commands, one at a time
\* A command run from its call to its return with no other task in between.
Whole(r) ==
    /\ RunToEnd(r).tk.pc = "done"
    /\ Store(1, RunToEnd(r))

\* No command is running and the cog is loaded.
Quiet == ~unloaded /\ \A u \in Tasks : ~Active(u)

Add(n) ==
    /\ Quiet
    /\ Whole(add_begin(Here(IdleTask), n))

Remove(n) ==
    /\ Quiet
    /\ Whole(del_begin(Here(IdleTask), n))

ReloadAll ==
    /\ Quiet
    /\ Whole(reload_begin(Here(IdleTask)))

\* ------------------------------------------------------- specifications
Threads ==
    \/ \E s \in SessionIds, ev \in Events : Dispatch(s, ev)
    \/ Tick
    \/ \E t \in timers : TimerExpire(t)
    \/ \E t \in timers : TimerFire(t)
    \/ RunReload

Coroutines ==
    \/ \E t \in Tasks, n \in Names : StartAdd(t, n)
    \/ \E t \in Tasks : AddFind(t)
    \/ \E t \in Tasks : AddEnter(t)
    \/ \E t \in Tasks : AddExit(t)
    \/ \E t \in Tasks : AddWait(t)
    \/ \E t \in Tasks : AddLogto(t)
    \/ \E t \in Tasks : AddCreate(t)
    \/ \E t \in Tasks, n \in Names : StartDel(t, n)
    \/ \E t \in Tasks : DelEnter(t)
    \/ \E t \in Tasks : DelExit(t)
    \/ \E t \in Tasks : StartReload(t)
    \/ \E t \in Tasks : LoadEnter(t)
    \/ \E t \in Tasks : LoadExit(t)
    \/ Unload

Commands ==
    \/ \E n \in Names : Add(n)
    \/ \E n \in Names : Remove(n)
    \/ ReloadAll
    \/ Unload

\* The whole program: command coroutines interleaved at their await points
\* with each other and with the observer, timer and event loop steps.
Next == Coroutines \/ Threads

Spec == Init /\ [][Next]_vars

\* The registry alone: command coroutines interleaved at their await points.
NextReg == Coroutines

SpecReg == Init /\ [][NextReg]_vars

\* The handlers under commands that run one at a time.
NextSeq == Commands \/ Threads

SpecSeq == InitStored /\ [][NextSeq]_vars

\* ------------------------------------- setting commands, interleaved
\* Arguments of the wait command, and the pattern of patterns add / rm.
WaitArgs == {-1, 1}
PatternArgs == {QTxt}

StartWait(t, given, w) ==
    /\ FreeSlot(t)
    /\ Store(t, wait_begin(Here(IdleTask), given, w))

WaitSet(t) ==
    /\ tasks[t].pc = "wset"
    /\ Resume(t)

StartLog(t, mode) ==
    /\ FreeSlot(t)
    /\ Store(t, log_begin(Here(IdleTask), mode))

LogSet(t) ==
    /\ tasks[t].pc = "lset"
    /\ Resume(t)

StartPatterns(t, op, p) ==
    /\ FreeSlot(t)
    /\ Store(t, patterns_begin(Here(IdleTask), op, p))

PatternsEnter(t) ==
    /\ tasks[t].pc = "penter"
    /\ Resume(t)

PatternsExit(t) ==
    /\ tasks[t].pc = "pexit"
    /\ Resume(t)

CmdSend(t) ==
    /\ tasks[t].pc = "send"
    /\ Resume(t)

Settings ==
    \/ \E t \in Tasks, given \in BOOLEAN, w \in WaitArgs : StartWait(t, given, w)
    \/ \E t \in Tasks : WaitSet(t)
    \/ \E t \in Tasks, mode \in {"query", "on", "off"} : StartLog(t, mode)
    \/ \E t \in Tasks : LogSet(t)
    \/ \E t \in Tasks, op \in {"patterns_add", "patterns_remove"}, p \in PatternArgs :
           StartPatterns(t, op, p)
    \/ \E t \in Tasks : PatternsEnter(t)
    \/ \E t \in Tasks : PatternsExit(t)
    \/ \E t \in Tasks : CmdSend(t)

\* add and remove of one cog, and the reload the setting commands end with.
Tracking ==
    \/ \E t \in Tasks : StartAdd(t, "foo")
    \/ \E t \in Tasks : AddFind(t)
    \/ \E t \in Tasks : AddEnter(t)
    \/ \E t \in Tasks : AddExit(t)
    \/ \E t \in Tasks : AddWait(t)
    \/ \E t \in Tasks : AddLogto(t)
    \/ \E t \in Tasks : AddCreate(t)
    \/ \E t \in Tasks : StartDel(t, "foo")
    \/ \E t \in Tasks : DelEnter(t)
    \/ \E t \in Tasks : DelExit(t)
    \/ \E t \in Tasks : LoadEnter(t)
    \/ \E t \in Tasks : LoadExit(t)

\* The setting commands interleaved at their await points with add and
\* remove.
NextSet == Settings \/ Tracking

SpecSet == Init /\ [][NextSet]_vars

\* ------------------------------------- setting commands, one at a time
SetWait(given, w) ==
    /\ Quiet
    /\ Whole(wait_begin(Here(IdleTask), given, w))

SetLog(mode) ==
    /\ Quiet
    /\ Whole(log_begin(Here(IdleTask), mode))

SetPatterns(op, p) ==
    /\ Quiet
    /\ Whole(patterns_begin(Here(IdleTask), op, p))

\* Every command, one at a time, and the handlers.
NextSetSeq ==
    \/ \E given \in BOOLEAN, w \in WaitArgs : SetWait(given, w)
    \/ \E mode \in {"query", "on", "off"} : SetLog(mode)
    \/ \E op \in {"patterns_add", "patterns_remove"}, p \in PatternArgs : SetPatterns(op, p)
    \/ \E n \in Packages : Add(n)
    \/ \E n \in Packages : Remove(n)
    \/ ReloadAll

SpecSetSeq == Init /\ [][NextSetSeq]_vars

\* ------------------------------------------------ a run after a restart
\* Lists an earlier run persisted; nope resolved then and does not now.
BootLists == {<< >>, <<"nope">>, <<"nope", "foo">>, <<"foo", "nope">>, <<"bar", "foo">>}

\* setup(bot): AutoReload(bot), then await ar.load() before the cog is added
\* to the bot, so before any command or event.
setup(stored) ==
    RunToEnd([tk |-> [IdleTask EXCEPT !.op = "reload", !.pc = "lenter"],
              config |-> stored, watch |-> NoWatch, sessions |-> << >>])

InitBoot ==
    \E r \in {setup([Defaults EXCEPT !.cogs = cogs]) : cogs \in BootLists} :
        /\ config = r.config
        /\ watch = r.watch
        /\ sessions = r.sessions
        /\ timers = {}
        /\ loopQueue = << >>
        /\ reloads = {}
        /\ tasks = [t \in Tasks |-> IdleTask]
        /\ unloaded = FALSE

\* The list command: the persisted list is what it sends.
list(r) == r.config.cogs

\* The tracking commands, one at a time, after a restart.
NextBoot ==
    \/ \E n \in Names : Add(n)
    \/ \E n \in Names : Remove(n)
    \/ ReloadAll

SpecBoot == InitBoot /\ [][NextBoot]_vars

\* ------------------------------------------- one handler and its reloads
\* A run whose store holds foo and a wait and logto of an earlier run.
InitNotify ==
    \E r \in {setup([Defaults EXCEPT !.cogs = <<"foo">>, !.wait = w, !.logto = l]) :
                 w \in {0, 1}, l \in LogTargets} :
        /\ config = r.config
        /\ watch = r.watch
        /\ sessions = r.sessions
        /\ timers = {}
        /\ loopQueue = << >>
        /\ reloads = {}
        /\ tasks = [t \in Tasks |-> IdleTask]
        /\ unloaded = FALSE

Reloading ==
    \/ RunReload
    \/ \E rec \in reloads, res \in ReloadResults : ReloadResult(rec, res)
    \/ \E rec \in reloads, raised \in BOOLEAN : SendReturns(rec, raised)

\* The handler of one cog: events, timers and the reload tasks on the loop.
NextNotify == Threads \/ Reloading

SpecNotify == InitNotify /\ [][NextNotify]_vars

\* Time passes, a timer thread whose wait has ended runs, the loop runs what
\* was posted to it, and an awaited core._reload or send comes back.
NotifyFairness ==
    /\ WF_vars(Tick)
    /\ WF_vars(\E t \in timers : TimerExpire(t))
    /\ WF_vars(\E t \in timers : TimerFire(t))
    /\ WF_vars(RunReload)
    /\ WF_vars(\E rec \in reloads, res \in ReloadResults : ReloadResult(rec, res))
    /\ WF_vars(\E rec \in reloads, raised \in BOOLEAN : SendReturns(rec, raised))

SpecNotifyFair == SpecNotify /\ NotifyFairness

\* --------------------------------------------------------------- claims
\* The reloads started for burst b of the handler of session s.
ReloadsOf(s, b) == {r \in reloads : r.sid = s /\ r.burst = b}

\* The qualifying events of burst b of session s: each armed one timer.
EventsOf(s, b) == {t \in timers : t.sid = s /\ t.burst = b}

\* A timer of session s is armed or firing, or a reload of it is posted.
InFlight(s) ==
    \/ \E t \in timers : t.sid = s /\ t.state \in {"armed", "expired"}
    \/ \E i \in 1..Len(loopQueue) : loopQueue[i].sid = s

ArmedTimers(s) == {t \in timers : t.sid = s /\ t.state = "armed"}

\* C2: a handler never has more than one armed timer, and the function of a
\* timer that was cancelled while armed is never called: no reload is posted
\* or started for it.
C2_OneArmedTimer ==
    /\ \A s \in SessionIds : Cardinality(ArmedTimers(s)) <= 1
    /\ \A t \in timers : t.state = "cancelled" =>
           /\ \A r \in reloads : r.timer # t.id
           /\ \A i \in 1..Len(loopQueue) : loopQueue[i].timer # t.id

\* An event has cancelled the armed timer of a handler and armed the next.
C2_Witness ==
    \E s \in SessionIds :
        /\ \E t \in timers : t.sid = s /\ t.state = "cancelled"
        /\ Cardinality(ArmedTimers(s)) = 1

\* C3: no reload is started from a timer that was armed when its session was
\* stopped (by remove, by reloadAll or by stopAll).
C3_StopCancelsPending ==
    \A r \in reloads : r.timer \notin sessions[r.sid].armedAtStop

\* The sessions of identifier n that were started and not stopped.
Running(n) == {s \in SessionIds : sessions[s].cog = n /\ sessions[s].alive}

\* C4: no identifier ever has more than one session that was started and not
\* stopped, however add, remove and reloadAll tasks interleave.
C4_OneSessionPerIdentifier ==
    \A n \in Names : Cardinality(Running(n)) <= 1

Posted(id) == \E i \in 1..Len(loopQueue) : loopQueue[i].timer = id

\* C5: the body of EventHandler.reload only ever starts on the event loop,
\* and a timer whose function has run (with wait = 0 too) has posted its
\* reload to the loop, where it waits or has started.
C5_ReloadRunsOnLoop ==
    /\ \A r \in reloads : r.thread = "loop"
    /\ \A t \in timers : t.state = "done" =>
           Posted(t.id) \/ \E r \in reloads : r.timer = t.id /\ r.thread = "loop"

\* With wait = 0 a timer has fired and its reload waits in the loop's queue.
C5_Witness ==
    \E t \in timers :
        /\ sessions[t.sid].wait = 0
        /\ t.state = "done"
        /\ Posted(t.id)
        /\ reloads = {}

Same == [timers |-> timers, sessions |-> sessions]

Matches(s, ev) == match_any_paths(EventPaths(ev), sessions[s].patterns)

\* C6: an event none of whose paths matches a pattern of the session leaves
\* the handler as it is: no timer is armed, cancelled or restarted, whatever
\* the delay and whether or not a timer is armed.
C6_NonMatchingIgnored ==
    \A s \in SessionIds : \A ev \in Events :
        (sessions[s].alive /\ ~Matches(s, ev))
            => dispatch(timers, sessions, s, ev) = Same

\* A handler with wait = 0 and an armed timer whose patterns match no .txt
\* path is handed the modified .txt file.
C6_Witness ==
    \E s \in SessionIds :
        /\ sessions[s].alive /\ sessions[s].wait = 0
        /\ ArmedTimers(s) # {}
        /\ ~Matches(s, Event("modified", FALSE, TxtPath, NoPath))
        /\ dispatch(timers, sessions, s, Event("modified", FALSE, TxtPath, NoPath)) = Same

\* The handler of s is handed ev and arms a new timer.
Arms(s, ev) ==
    LET after == dispatch(timers, sessions, s, ev)
    IN /\ after.sessions[s].debounce # sessions[s].debounce
       /\ \E t \in after.timers \ timers :
              t.id = after.sessions[s].debounce /\ t.sid = s /\ t.state = "armed"

\* An event of one of these types, on a file one of whose paths matches.
Qualifies(s, ev, types) == ev.type \in types /\ ~ev.isdir /\ Matches(s, ev)

\* C7 as stated: the events that arm the timer are the matching modified and
\* created file events, and every other event causes no transition.
C7_ModifiedOrCreatedArm ==
    \A s \in SessionIds : \A ev \in Events :
        sessions[s].alive =>
            IF Qualifies(s, ev, {"modified", "created"}) THEN Arms(s, ev)
            ELSE dispatch(timers, sessions, s, ev) = Same

\* C7, amended: the events that arm the timer are exactly the matching
\* modified file events; a created, deleted or moved event and every
\* directory event cause no transition.
C7_OnlyModifiedArms ==
    \A s \in SessionIds : \A ev \in Events :
        sessions[s].alive =>
            IF Qualifies(s, ev, {"modified"}) THEN Arms(s, ev)
            ELSE dispatch(timers, sessions, s, ev) = Same

\* An idle started handler that a matching modified file arms and a matching
\* created file leaves idle.
C7_Witness ==
    \E s \in SessionIds :
        /\ sessions[s].alive /\ ~InFlight(s)
        /\ Arms(s, Event("modified", FALSE, PyPath, NoPath))
        /\ Matches(s, Event("created", FALSE, PyPath, NoPath))
        /\ ~Arms(s, Event("created", FALSE, PyPath, NoPath))

\* C8: a session created while the persisted pattern list was empty hands
\* on exactly the events a session with the list ["*"] hands on, which is
\* every file event.
C8_EmptyPatternsMatchAll ==
    \A s \in SessionIds : sessions[s].persisted = << >> =>
        \A ev \in Events :
            /\ Dispatches(sessions[s], ev)
                   = Dispatches([sessions[s] EXCEPT !.patterns = <<Star>>], ev)
            /\ ~ev.isdir => Dispatches(sessions[s], ev)

\* A session created from the empty list has armed a timer.
C8_Witness ==
    \E s \in SessionIds :
        /\ sessions[s].persisted = << >>
        /\ sessions[s].debounce # 0
        /\ Arms(s, Event("modified", FALSE, TxtPath, NoPath))

\* The add command for n, run from the state as it is to its return.
AddOutcome(n) == RunToEnd(add_begin(Here(IdleTask), n))

\* The state a coroutine leaves is the state it found.
Untouched(r) == r.config = config /\ r.watch = watch /\ r.sessions = sessions

Count(x, seq) == Cardinality({i \in 1..Len(seq) : seq[i] = x})

\* What the contract of add promises for identifier n.
AddContract(n) ==
    LET r == AddOutcome(n)
    IN IF watch[n] # 0 \/ find_cog(n) = None
       THEN r.tk.pc = "done" /\ r.tk.ret = None /\ Untouched(r)
       ELSE Len(sessions) < MaxSessions =>
                /\ r.tk.pc = "done"
                /\ r.tk.ret = True
                /\ r.watch[n] # 0
                /\ r.sessions[r.watch[n]].cog = n
                /\ r.sessions[r.watch[n]].alive
                /\ Count(n, r.config.cogs) = 1

\* C9: add of an identifier that is a key of the registry, or that the
\* resolver does not find, returns a false value without raising and leaves
\* the registry, the sessions and the persisted list as they were; add of
\* any other identifier returns true with the identifier in the registry,
\* its session started, and in the persisted list exactly once (checked
\* while the model has room for one more session).
C9_AddContract == \A n \in Names : AddContract(n)

\* An add of mod, which resolves to a module without a directory, has
\* raised: mod is persisted and is no key of the registry.
C9_Witness ==
    /\ InSeq("mod", config.cogs) /\ watch["mod"] = 0
    /\ \A t \in Tasks : ~Active(t)
    /\ AddOutcome("mod").tk.ret = Raised

\* The contract of add holds for every identifier but those that resolve to
\* a module without a directory.
AddContractOfPackages == \A n \in Names \ PlainModules : AddContract(n)

\* foo was added, so that a second add of foo returns None; bar is persisted
\* without a session, and add of bar returns True.
AddContractOfPackagesSeen ==
    /\ watch["foo"] # 0 /\ sessions[watch["foo"]].alive
    /\ Count("foo", config.cogs) = 1
    /\ AddOutcome("foo").tk.ret = None
    /\ watch["bar"] = 0 /\ InSeq("bar", config.cogs)
    /\ AddOutcome("bar").tk.ret = True

\* C10: remove of an identifier that is not a key of the registry returns a
\* false value at once and leaves the registry, the sessions and the
\* persisted list as they were.
C10_RemoveUntracked ==
    \A n \in Names : watch[n] = 0 =>
        LET r == del_begin(Here(IdleTask), n)
        IN r.tk.pc = "done" /\ r.tk.ret = None /\ Untouched(r)

\* An identifier is persisted and has a running session, but is no key of
\* the registry: remove of it returns false and stops nothing.
C10_Witness ==
    \E n \in Names :
        /\ watch[n] = 0 /\ InSeq(n, config.cogs) /\ Running(n) # {}
        /\ del_begin(Here(IdleTask), n).tk.ret = None

\* The remove command for n, run from the state as it is to its return.
DelOutcome(n) == RunToEnd(del_begin(Here(IdleTask), n))

\* C11: remove of a tracked identifier returns True with the identifier's
\* session stopped (no session of it is left running), the identifier no
\* key of the registry and not in the persisted list; when the session has
\* seen no event, as after an add followed at once by the remove, no timer
\* thread of it exists either.
C11_RemoveStopsSession ==
    \A n \in Names : watch[n] # 0 =>
        LET r == DelOutcome(n)
            s == watch[n]
        IN /\ r.tk.pc = "done" /\ r.tk.ret = True
           /\ ~r.sessions[s].alive
           /\ \A k \in 1..Len(r.sessions) : r.sessions[k].cog = n => ~r.sessions[k].alive
           /\ r.watch[n] = 0
           /\ ~InSeq(n, r.config.cogs)
           /\ sessions[s].debounce = 0 => \A t \in timers : t.sid # s

\* foo has just been added: its session runs and has seen no event, and the
\* remove of foo returns True.
C11_Witness ==
    /\ watch["foo"] # 0 /\ sessions[watch["foo"]].alive
    /\ sessions[watch["foo"]].debounce = 0
    /\ InSeq("foo", config.cogs)
    /\ DelOutcome("foo").tk.ret = True
    /\ ~DelOutcome("foo").sessions[watch["foo"]].alive

\* The session captured the values the store holds now.
Current(s) ==
    /\ sessions[s].wait = config.wait
    /\ sessions[s].logto = config.logto
    /\ sessions[s].patterns = add_patterns(config.patterns)

\* C12: whenever no command task is in progress, every running session
\* holds the delay, the patterns and the notification target that are
\* persisted now, however add, remove and the setting commands interleave.
C12_SessionsHoldCurrentSettings ==
    (\A t \in Tasks : ~Active(t)) =>
        \A s \in SessionIds : sessions[s].alive => Current(s)

\* C13: once unload() has returned the registry is empty and no session is
\* running, also when an add task was suspended at an await while it ran.
C13_StopAllLeavesNothingRunning ==
    unloaded => /\ watch = NoWatch
                /\ \A s \in SessionIds : ~sessions[s].alive

\* unload() has run while an add task was suspended, and the task has ended.
C13_Witness ==
    /\ unloaded
    /\ \A t \in Tasks : ~Active(t)
    /\ \E s \in SessionIds : sessions[s].alive

\* unload() itself leaves the store as it is, empties the registry and stops
\* every session the registry holds.
StopAllStep ==
    [][(~unloaded /\ unloaded') =>
           /\ config' = config
           /\ watch' = NoWatch
           /\ \A n \in Names : watch[n] # 0 => ~sessions'[watch[n]].alive]_vars

\* The keys of the registry whose session runs.
TrackedNames == {n \in Names : watch[n] # 0 /\ sessions[watch[n]].alive}

\* seq holds exactly the names of set, each once, in the order their
\* sessions were created (the order the keys entered the registry).
InOrderAdded(seq, set) ==
    /\ Len(seq) = Cardinality(set)
    /\ \A n \in set : InSeq(n, seq)
    /\ \A i, j \in 1..Len(seq) : i < j => watch[seq[i]] < watch[seq[j]]

\* C14: with no command in progress, list() gives exactly the identifiers
\* that have a running session in the registry, in the order they were added.
C14_ListIsTracked ==
    (\A t \in Tasks : ~Active(t)) => InOrderAdded(list(Here(IdleTask)), TrackedNames)

\* reloadAll has run with a persisted identifier that does not resolve:
\* foo has its running session and list() still names nope.
C14_Witness ==
    /\ InSeq("nope", list(Here(IdleTask)))
    /\ TrackedNames = {"foo"}
    /\ Len(sessions) = 2

\* C15: add of an identifier that resolves to a module without a directory
\* fails silently: it returns a false value and does not raise, and
\* afterwards the identifier is no key of the registry, is not in the
\* persisted list (unless it was before) and no session exists for it.
C15_AddFailsSilently ==
    \A n \in PlainModules : watch[n] = 0 =>
        LET r == AddOutcome(n)
        IN /\ r.tk.pc = "done" /\ r.tk.ret = None
           /\ r.watch = watch /\ r.sessions = sessions
           /\ InSeq(n, r.config.cogs) => InSeq(n, config.cogs)
           /\ \A k \in 1..Len(r.sessions) : r.sessions[k].cog # n

\* The add of mod has been run and has raised after it had persisted mod;
\* no session was created for it.
C15_Witness ==
    /\ \E i \in 1..Len(config.cogs) : config.cogs[i] \in PlainModules
    /\ \A n \in PlainModules : watch[n] = 0
    /\ \A k \in SessionIds : sessions[k].cog \notin PlainModules
    /\ \A t \in Tasks : ~Active(t)

\* The handler that started reload rec has a notification sink.
HasSink(rec) == sessions[rec.sid].logto # None

\* C16: a reload of a handler with a sink sends exactly one status message,
\* "Reloaded" when the reload succeeded and "failed to reload" when it did
\* not; pages of error detail follow the failed message only; a handler
\* without a sink sends nothing.
C16_OneStatusMessage ==
    \A rec \in reloads :
        /\ rec.pc = "reloading" => rec.calls = << >>
        /\ ~HasSink(rec) => rec.calls = << >>
        /\ (HasSink(rec) /\ rec.pc # "reloading") =>
               /\ Len(rec.calls) >= 1
               /\ rec.calls[1] = (IF rec.ok THEN "Reloaded" ELSE "failed to reload")
               /\ \A i \in 2..Len(rec.calls) : rec.calls[i] = "page"
               /\ rec.ok => Len(rec.calls) = 1

\* A failed reload has sent the failed message and two pages, and another
\* reload of the same handler has sent Reloaded.
C16_Witness ==
    /\ \E rec \in reloads :
           /\ HasSink(rec) /\ rec.pc = "done" /\ ~rec.ok
           /\ rec.calls = <<"failed to reload", "page", "page">>
    /\ \E rec \in reloads :
           HasSink(rec) /\ rec.pc = "done" /\ rec.ok /\ rec.calls = <<"Reloaded">>

\* The reload task has ended: it returned, or a send raised.
Ended(rec) == rec.pc \in {"done", "raised"}

TimerIs(id, state) == \E t \in timers : t.id = id /\ t.state = state

\* C17: whatever way a reload task of a handler has ended, a qualifying
\* event on the handler's running session arms the timer; and a timer that
\* is armed is cancelled by a later event or leads to a reload that runs to
\* its end.
C17_HandlerStaysUsable ==
    /\ [](\A rec \in reloads : (Ended(rec) /\ sessions[rec.sid].alive) =>
              Arms(rec.sid, Event("modified", FALSE, PyPath, NoPath)))
    /\ \A id \in 1..MaxTimers :
           TimerIs(id, "armed") ~>
               (TimerIs(id, "cancelled") \/ \E rec \in reloads : rec.timer = id /\ Ended(rec))

\* A reload of the handler ended with a send that raised, another one
\* failed, and a later event has led to a further reload that has ended.
C17_Witness ==
    \E a, b \in reloads :
        /\ a.sid = b.sid /\ a.timer < b.timer
        /\ a.pc = "raised" /\ ~a.ok
        /\ Ended(b)

\* The timers started by the handler of session s.
TimersOf(ts, s) == {t \in ts : t.sid = s}

\* C18: an event handed to the handler of one session leaves the timers and
\* the handler of every other session as they were, and every reload that
\* runs comes from a timer of its own session that ran to its end and names
\* that session's cog.
C18_ItemsIndependent ==
    /\ \A a, b \in SessionIds : \A ev \in Events :
           (a # b /\ sessions[a].alive) =>
               LET after == dispatch(timers, sessions, a, ev)
               IN /\ TimersOf(after.timers, b) = TimersOf(timers, b)
                  /\ after.sessions[b] = sessions[b]
    /\ \A rec \in reloads :
           /\ rec.cog = sessions[rec.sid].cog
           /\ \E t \in TimersOf(timers, rec.sid) : t.id = rec.timer /\ t.state = "done"

\* Two cogs are watched, a reload of one has run, the other's timer is
\* armed, and an event of the first arms its timer again.
C18_Witness ==
    \E a, b \in SessionIds :
        /\ sessions[a].alive /\ sessions[b].alive
        /\ sessions[a].cog # sessions[b].cog
        /\ \E t \in TimersOf(timers, b) : t.state = "armed"
        /\ \E rec \in reloads : rec.sid = a
        /\ Arms(a, Event("modified", FALSE, PyPath, NoPath))

\* What reload (unload, then load) run from the current state ends in.
ReloadOutcome == RunToEnd(reload_begin(Here(IdleTask)))

\* n is a key of the registry and its session runs.
Watched(r, n) == r.watch[n] # 0 /\ r.sessions[r.watch[n]].alive

\* The sessions reload will create fit the bound on sessions.
ReloadFits ==
    Len(sessions) + Cardinality({n \in Packages : InSeq(n, config.cogs)}) <= MaxSessions

\* C19: reload run while no command is in progress comes to its end and
\* returns, and every persisted identifier that find_cog resolves then has a
\* running session.
C19_ReloadAllFinishes ==
    (Quiet /\ ReloadFits) =>
        LET r == ReloadOutcome
        IN /\ r.tk.pc = "done" /\ r.tk.ret = None
           /\ \A n \in Resolvable : InSeq(n, r.config.cogs) => Watched(r, n)

\* The same for the packages only, however reload ends.
ReloadAllStartsPackages ==
    (Quiet /\ ReloadFits) =>
        LET r == ReloadOutcome
        IN /\ r.tk.pc = "done"
           /\ \A n \in Packages : InSeq(n, r.config.cogs) => Watched(r, n)

\* reload is run with a package persisted and running; it returns with the
\* package running in a new session.
C19_Witness ==
    /\ Quiet /\ ReloadFits
    /\ \E n \in Packages :
           /\ InSeq(n, config.cogs) /\ Watched(Here(IdleTask), n)
           /\ LET r == ReloadOutcome
              IN r.tk.pc = "done" /\ Watched(r, n) /\ r.watch[n] # watch[n]

\* C20: whenever no command task is in progress, every key of the registry
\* is in the persisted list.
C20_WatchedIsPersisted ==
    (\A u \in Tasks : ~Active(u)) =>
        \A n \in Names : watch[n] # 0 => InSeq(n, config.cogs)

\* No task is in progress, and a cog whose add has ended is watched while
\* the persisted list, written back by a load that had read it earlier,
\* does not hold it.
C20_Witness ==
    /\ \A u \in Tasks : ~Active(u)
    /\ \E n \in Packages :
           /\ watch[n] # 0 /\ sessions[watch[n]].alive
           /\ ~InSeq(n, config.cogs)

====
